---- MODULE Spec2Model ----
(***************************************************************************)
(* ServerVerifier of rustls-libssl/src/verifier.rs: the certificate        *)
(* verifier that records an OpenSSL X509_V_* code in an atomic register    *)
(* and filters its decision through the verify mode.                       *)
(*                                                                         *)
(* The atomic last_result is modelled by its modification order (the       *)
(* sequence of values stored so far, the initial value first).  A load     *)
(* returns an element of that order that is not older than what the        *)
(* loading thread is known to have happened-after.                         *)
(***************************************************************************)
EXTENDS Integers, Sequences, FiniteSets

VARIABLES root_store, provider, verify_hostname, mode, last_result,
          call, reader, sig

vars == <<root_store, provider, verify_hostname, mode, last_result,
          call, reader, sig>>

\* ---------------------------------------------------------------- bounds
NumCalls == 2
NumReaders == 1
NumNames == 2

Calls == 1..NumCalls
Readers == 1..NumReaders
Names == 1..NumNames

\* ------------------------------------------------ openssl_sys constants
X509_V_OK == 0
X509_V_ERR_UNSPECIFIED == 1
X509_V_ERR_CERT_NOT_YET_VALID == 9
X509_V_ERR_CERT_HAS_EXPIRED == 10
X509_V_ERR_UNABLE_TO_GET_ISSUER_CERT_LOCALLY == 20
X509_V_ERR_CERT_REVOKED == 23
X509_V_ERR_INVALID_PURPOSE == 26
X509_V_ERR_HOSTNAME_MISMATCH == 62

\* `as i64` applied to a c_int: sign extension, which keeps the value of
\* every 32-bit signed integer.
AsI64(v) == v

\* ------------------------------------------------------- rustls values
\* Result<(), Error>
OkResult == [ok |-> TRUE, err |-> [variant |-> "-", kind |-> "-"]]
Err(e) == [ok |-> FALSE, err |-> e]

\* Error::InvalidCertificate(CertificateError::k)
InvalidCertificate(k) == [variant |-> "InvalidCertificate", kind |-> k]
\* an Error that is not an InvalidCertificate
GeneralError == [variant |-> "General", kind |-> "-"]

\* Option<ServerName>: None
None == 0

\* What verify_server_cert_signed_by_trust_anchor can return for a parsed
\* leaf: success, one of the classified path failures, a certificate error
\* without an X509_V_* arm, or an error of another variant.
ChainOutcomes ==
    {OkResult}
    \cup {Err(InvalidCertificate(k)) :
            k \in {"UnknownIssuer", "NotValidYet", "Expired", "Revoked",
                   "InvalidPurpose", "BadSignature"}}
    \cup {Err(GeneralError)}

\* One verify_server_cert call's arguments.  end_entity carries whether its
\* DER parses and the names it is valid for; chain is the verdict of the path
\* validation of (end_entity, intermediates, now) against root_store;
\* server_name is the name supplied by the transport.
Inputs ==
    [end_entity : [der_ok : BOOLEAN, names : SUBSET Names],
     chain : ChainOutcomes,
     server_name : Names]

\* The calls of concurrent handshakes to one host: the same name set and
\* transport name; a valid chain, an unparsable leaf, a failure with a
\* legacy code and one without.
ConcInputs ==
    {in \in Inputs :
        /\ in.server_name = 1
        /\ in.end_entity.names = {1}
        /\ \/ in.chain = OkResult
           \/ /\ in.end_entity.der_ok
              /\ in.chain \in {Err(InvalidCertificate("Expired")),
                               Err(GeneralError)}}

NoInput ==
    [end_entity |-> [der_ok |-> FALSE, names |-> {}],
     chain |-> OkResult, server_name |-> 1]

\* crate::VerifyMode
VerifyModes == {"mandatory", "advisory"}
client_must_verify_server(m) == m = "mandatory"

\* The scheme of a DigitallySignedStruct: one the provider supports, one it
\* does not.
Schemes == {"RSA_PSS_SHA256", "ED25519"}
\* provider.signature_verification_algorithms
DefaultProvider ==
    [signature_verification_algorithms |->
        <<"ECDSA_NISTP256_SHA256", "RSA_PSS_SHA256">>]

\* ------------------------------------------------------ the atomic slot
\* AtomicI64::new(v)
AtomicNew(v) == <<v>>

\* Variant: only failures are recorded.
AtomicStore_FailuresOnly(a, v) == IF v = X509_V_OK THEN a ELSE Append(a, v)

\* AtomicI64::store(v, Release): v becomes the last value of the
\* modification order.
AtomicStore(a, v) == Append(a, v)

\* Variant: a load that may return any earlier value.
AtomicLoad_Stale(a, seen) == 1..Len(a)

\* AtomicI64::load(Acquire) by a thread that happened-after the store at
\* position `seen`: the positions it may read from.
AtomicLoad(a, seen) == seen..Len(a)

\* --------------------------------------------------------- constructor
\* Variant: the register starts at X509_V_OK.
ServerVerifier_new_OkInit(rs, p, m, hostname) ==
    [root_store |-> rs, provider |-> p, verify_hostname |-> hostname,
     mode |-> m, last_result |-> AtomicNew(AsI64(X509_V_OK))]

ServerVerifier_new(rs, p, m, hostname) ==
    [root_store |-> rs, provider |-> p, verify_hostname |-> hostname,
     mode |-> m, last_result |-> AtomicNew(AsI64(X509_V_ERR_UNSPECIFIED))]

\* ------------------------------------------------ verify_server_cert_inner
ParsedCertificate_try_from(end_entity) ==
    IF end_entity.der_ok THEN OkResult
    ELSE Err(InvalidCertificate("BadEncoding"))

verify_server_cert_signed_by_trust_anchor(chain) == chain

\* Variant: every name is accepted.
verify_server_name_Always(end_entity, server_name) == OkResult

verify_server_name(end_entity, server_name) ==
    IF server_name \in end_entity.names THEN OkResult
    ELSE Err(InvalidCertificate("NotValidForName"))

\* Variant: the name is checked before the chain.
verify_server_cert_inner_NameFirst(hostname, end_entity, chain) ==
    LET parsed == ParsedCertificate_try_from(end_entity)
        anchored == verify_server_cert_signed_by_trust_anchor(chain)
        named == verify_server_name(end_entity, hostname)
    IN  IF ~parsed.ok THEN parsed
        ELSE IF hostname # None /\ ~named.ok THEN named
        ELSE IF ~anchored.ok THEN anchored
        ELSE OkResult

verify_server_cert_inner(hostname, end_entity, chain) ==
    LET parsed == ParsedCertificate_try_from(end_entity)
        anchored == verify_server_cert_signed_by_trust_anchor(chain)
        named == verify_server_name(end_entity, hostname)
    IN  IF ~parsed.ok THEN parsed
        ELSE IF ~anchored.ok THEN anchored
        ELSE IF hostname # None /\ ~named.ok THEN named
        ELSE OkResult

\* Variant: without an expected name, the transport's name is checked.
InnerResult_TransportName(hostname, end_entity, chain, ignored_server_name) ==
    verify_server_cert_inner(
        IF hostname = None THEN ignored_server_name ELSE hostname,
        end_entity, chain)

\* line 97: the transport's name is not passed on.
InnerResult(hostname, end_entity, chain, ignored_server_name) ==
    verify_server_cert_inner(hostname, end_entity, chain)

\* Variant: the arms of NotValidYet and Expired are exchanged.
OpensslRv_SwappedDates(result) ==
    IF result.ok THEN X509_V_OK
    ELSE IF result.err.variant # "InvalidCertificate" THEN X509_V_ERR_UNSPECIFIED
    ELSE CASE result.err.kind = "UnknownIssuer" ->
                  X509_V_ERR_UNABLE_TO_GET_ISSUER_CERT_LOCALLY
           [] result.err.kind = "NotValidYet" -> X509_V_ERR_CERT_HAS_EXPIRED
           [] result.err.kind = "Expired" -> X509_V_ERR_CERT_NOT_YET_VALID
           [] result.err.kind = "Revoked" -> X509_V_ERR_CERT_REVOKED
           [] result.err.kind = "InvalidPurpose" -> X509_V_ERR_INVALID_PURPOSE
           [] result.err.kind = "NotValidForName" -> X509_V_ERR_HOSTNAME_MISMATCH
           [] OTHER -> X509_V_ERR_UNSPECIFIED

\* Variant: under the advisory mode every outcome is recorded as success.
OpensslRv_ModeAware(result) ==
    IF result.ok \/ ~client_must_verify_server(mode) THEN X509_V_OK
    ELSE IF result.err.variant # "InvalidCertificate" THEN X509_V_ERR_UNSPECIFIED
    ELSE CASE result.err.kind = "UnknownIssuer" ->
                  X509_V_ERR_UNABLE_TO_GET_ISSUER_CERT_LOCALLY
           [] result.err.kind = "NotValidYet" -> X509_V_ERR_CERT_NOT_YET_VALID
           [] result.err.kind = "Expired" -> X509_V_ERR_CERT_HAS_EXPIRED
           [] result.err.kind = "Revoked" -> X509_V_ERR_CERT_REVOKED
           [] result.err.kind = "InvalidPurpose" -> X509_V_ERR_INVALID_PURPOSE
           [] result.err.kind = "NotValidForName" -> X509_V_ERR_HOSTNAME_MISMATCH
           [] OTHER -> X509_V_ERR_UNSPECIFIED

\* lines 99-119: the match of result to an X509_V_* code.
OpensslRv(result) ==
    IF result.ok THEN X509_V_OK
    ELSE IF result.err.variant # "InvalidCertificate" THEN X509_V_ERR_UNSPECIFIED
    ELSE CASE result.err.kind = "UnknownIssuer" ->
                  X509_V_ERR_UNABLE_TO_GET_ISSUER_CERT_LOCALLY
           [] result.err.kind = "NotValidYet" -> X509_V_ERR_CERT_NOT_YET_VALID
           [] result.err.kind = "Expired" -> X509_V_ERR_CERT_HAS_EXPIRED
           [] result.err.kind = "Revoked" -> X509_V_ERR_CERT_REVOKED
           [] result.err.kind = "InvalidPurpose" -> X509_V_ERR_INVALID_PURPOSE
           [] result.err.kind = "NotValidForName" -> X509_V_ERR_HOSTNAME_MISMATCH
           [] OTHER -> X509_V_ERR_UNSPECIFIED

\* Variant: the decision reads the register back instead of openssl_rv.
Decision_FromRegister(openssl_rv, result, m) ==
    IF last_result[Len(last_result)] = X509_V_OK
       \/ ~client_must_verify_server(m)
    THEN OkResult
    ELSE Err(result.err)

\* lines 123-127: Ok(ServerCertVerified) or Err(result.unwrap_err()).
Decision(openssl_rv, result, m) ==
    IF openssl_rv = X509_V_OK \/ ~client_must_verify_server(m)
    THEN OkResult
    ELSE Err(result.err)

\* ------------------------------------------------------------- threads
\* A verify_server_cert call: its arguments, its locals result and
\* openssl_rv, the position `at` of its store in the modification order of
\* last_result, its returned value, and whether another store had followed
\* its own when it returned.
IdleCall ==
    [pc |-> "idle", in |-> NoInput, result |-> OkResult,
     openssl_rv |-> X509_V_OK, at |-> 0, ret |-> OkResult, raced |-> FALSE]

\* A last_result() call: the call it was made after (0: none, only the
\* construction), whether no store had followed that call's store (the
\* construction's initial value) when it was made, and its value.
IdleReader == [pc |-> "idle", after |-> 0, fresh |-> FALSE, got |-> 0]

NoSig == [op |-> "-", ret |-> <<>>]

\* The state after ServerVerifier::new, the expected hostname being one of
\* `hostnames`.
Constructed(hostnames) ==
    /\ \E m \in VerifyModes, hostname \in hostnames :
         LET self == ServerVerifier_new("roots", DefaultProvider, m, hostname)
         IN  /\ root_store = self.root_store
             /\ provider = self.provider
             /\ verify_hostname = self.verify_hostname
             /\ mode = self.mode
             /\ last_result = self.last_result
    /\ call = [c \in Calls |-> IdleCall]
    /\ reader = [r \in Readers |-> IdleReader]
    /\ sig = NoSig

Init == Constructed({None} \cup Names)

\* verify_server_cert, lines 97-120: validate, map, store.
VerifyServerCert(c, in) ==
    /\ call[c].pc = "idle"
    /\ LET result == InnerResult(verify_hostname, in.end_entity, in.chain,
                                 in.server_name)
           openssl_rv == OpensslRv(result)
       IN  /\ last_result' = AtomicStore(last_result, AsI64(openssl_rv))
           /\ call' = [call EXCEPT ![c] =
                         [pc |-> "stored", in |-> in, result |-> result,
                          openssl_rv |-> openssl_rv,
                          at |-> Len(last_result'), ret |-> OkResult,
                          raced |-> FALSE]]
    /\ UNCHANGED <<root_store, provider, verify_hostname, mode, reader, sig>>

\* verify_server_cert, lines 122-127: the decision returned.
VerifyServerCertReturn(c) ==
    /\ call[c].pc = "stored"
    /\ call' = [call EXCEPT ![c].pc = "returned",
                            ![c].ret = Decision(call[c].openssl_rv,
                                                call[c].result, mode),
                            ![c].raced = Len(last_result) > call[c].at]
    /\ UNCHANGED <<root_store, provider, verify_hostname, mode, last_result,
                   reader, sig>>

\* last_result(), by a thread that has seen call `after` return
\* (after = 0: it has seen no call return).
LastResult(r, after) ==
    /\ reader[r].pc = "idle"
    /\ after # 0 => call[after].pc = "returned"
    /\ LET seen == IF after = 0 THEN 1 ELSE call[after].at
       IN  \E i \in AtomicLoad(last_result, seen) :
             reader' = [reader EXCEPT ![r] =
                          [pc |-> "read", after |-> after,
                           fresh |-> Len(last_result) = seen,
                           got |-> last_result[i]]]
    /\ UNCHANGED <<root_store, provider, verify_hostname, mode, last_result,
                   call, sig>>

\* rustls::crypto::verify_tls12_signature / verify_tls13_signature: valid
\* when the scheme is one of the provider's and the signature checks out.
verify_signature(scheme, sig_ok, algs) ==
    IF (\E i \in 1..Len(algs) : algs[i] = scheme) /\ sig_ok
    THEN <<"HandshakeSignatureValid">>
    ELSE <<"Err">>

\* Variant: a failed signature check is recorded in the register.
VerifyTls12Signature_Records(scheme, sig_ok) ==
    LET ret == verify_signature(scheme, sig_ok,
                                provider.signature_verification_algorithms)
    IN  /\ sig' = [op |-> "tls12", ret |-> ret]
        /\ last_result' = IF ret = <<"Err">>
                           THEN AtomicStore(last_result,
                                            AsI64(X509_V_ERR_UNSPECIFIED))
                           ELSE last_result
        /\ UNCHANGED <<root_store, provider, verify_hostname, mode, call,
                       reader>>

VerifyTls12Signature(scheme, sig_ok) ==
    /\ sig' = [op |-> "tls12",
               ret |-> verify_signature(scheme, sig_ok,
                          provider.signature_verification_algorithms)]
    /\ UNCHANGED <<root_store, provider, verify_hostname, mode, last_result,
                   call, reader>>

VerifyTls13Signature(scheme, sig_ok) ==
    /\ sig' = [op |-> "tls13",
               ret |-> verify_signature(scheme, sig_ok,
                          provider.signature_verification_algorithms)]
    /\ UNCHANGED <<root_store, provider, verify_hostname, mode, last_result,
                   call, reader>>

SupportedVerifySchemes ==
    /\ sig' = [op |-> "schemes",
               ret |-> provider.signature_verification_algorithms]
    /\ UNCHANGED <<root_store, provider, verify_hostname, mode, last_result,
                   call, reader>>

\* One handshake thread, any certificate, every operation of the verifier.
Next ==
    \/ \E in \in Inputs : VerifyServerCert(1, in)
    \/ VerifyServerCertReturn(1)
    \/ \E r \in Readers, after \in {0, 1} : LastResult(r, after)
    \/ \E s \in Schemes, b \in BOOLEAN : VerifyTls12Signature(s, b)
    \/ \E s \in Schemes, b \in BOOLEAN : VerifyTls13Signature(s, b)
    \/ SupportedVerifySchemes

Spec == Init /\ [][Next]_vars

\* Concurrent verify_server_cert calls and concurrent readers, on a
\* verifier constructed without an expected hostname.
InitConc == Constructed({None})

NextConc ==
    \/ \E c \in Calls, in \in ConcInputs : VerifyServerCert(c, in)
    \/ \E c \in Calls : VerifyServerCertReturn(c)
    \/ \E r \in Readers, after \in {0} \cup Calls : LastResult(r, after)

SpecConc == InitConc /\ [][NextConc]_vars

\* ================================================================ claims
\* The value last_result() reports once call c has stored.
Stored(c) == last_result[call[c].at]

LegacyCodes ==
    {X509_V_OK, X509_V_ERR_UNABLE_TO_GET_ISSUER_CERT_LOCALLY,
     X509_V_ERR_CERT_NOT_YET_VALID, X509_V_ERR_CERT_HAS_EXPIRED,
     X509_V_ERR_CERT_REVOKED, X509_V_ERR_INVALID_PURPOSE,
     X509_V_ERR_HOSTNAME_MISMATCH, X509_V_ERR_UNSPECIFIED}

\* The table of legacy codes, by kind of certificate error.
CodeTable ==
    [k \in {"UnknownIssuer", "NotValidYet", "Expired", "Revoked",
            "InvalidPurpose", "NotValidForName"} |->
        CASE k = "UnknownIssuer" -> X509_V_ERR_UNABLE_TO_GET_ISSUER_CERT_LOCALLY
          [] k = "NotValidYet" -> X509_V_ERR_CERT_NOT_YET_VALID
          [] k = "Expired" -> X509_V_ERR_CERT_HAS_EXPIRED
          [] k = "Revoked" -> X509_V_ERR_CERT_REVOKED
          [] k = "InvalidPurpose" -> X509_V_ERR_INVALID_PURPOSE
          [] k = "NotValidForName" -> X509_V_ERR_HOSTNAME_MISMATCH]

TableCode(result) ==
    IF result.ok THEN X509_V_OK
    ELSE IF result.err.variant = "InvalidCertificate"
            /\ result.err.kind \in DOMAIN CodeTable
         THEN CodeTable[result.err.kind]
         ELSE X509_V_ERR_UNSPECIFIED

\* C1: a call returns 'verified' exactly when its own mapped code is OK or
\* the mode does not require verification; otherwise it returns the error
\* its own validation produced.  Under the advisory mode it never returns an
\* error.  Stores of other calls do not enter the decision.
C1_Decision ==
    \A c \in Calls :
        call[c].pc = "returned" =>
            /\ call[c].ret.ok <=>
                  (call[c].openssl_rv = X509_V_OK \/ mode # "mandatory")
            /\ ~call[c].ret.ok =>
                  /\ ~call[c].result.ok
                  /\ call[c].ret = call[c].result
            /\ mode = "advisory" => call[c].ret.ok

\* C1 witness: under the mandatory mode a call with a failure code returned
\* its error although another call had stored OK after it and before it
\* returned.
C1_Witness ==
    \E c, d \in Calls :
        /\ mode = "mandatory"
        /\ call[c].pc = "returned"
        /\ call[c].openssl_rv = X509_V_ERR_CERT_HAS_EXPIRED
        /\ ~call[c].ret.ok
        /\ call[d].pc # "idle"
        /\ call[d].openssl_rv = X509_V_OK
        /\ call[c].at < call[d].at
        /\ call[c].raced

\* C2: the code a call stores is the one the table gives for its outcome,
\* every failure without a row is stored as unspecified, and OK is stored
\* only when the validation succeeded.
C2_Table ==
    \A c \in Calls :
        call[c].pc # "idle" =>
            /\ Stored(c) = TableCode(call[c].result)
            /\ Stored(c) = X509_V_OK => call[c].result.ok
            /\ ~call[c].in.end_entity.der_ok =>
                  Stored(c) = X509_V_ERR_UNSPECIFIED

\* C2 witness: a chain with an unknown issuer was verified and last_result()
\* reported "unable to get issuer certificate locally".
C2_Witness ==
    \E c \in Calls, r \in Readers :
        /\ call[c].pc = "returned"
        /\ call[c].result = Err(InvalidCertificate("UnknownIssuer"))
        /\ reader[r].pc = "read"
        /\ reader[r].after = c
        /\ reader[r].got = X509_V_ERR_UNABLE_TO_GET_ISSUER_CERT_LOCALLY

ChainValid(in) == in.end_entity.der_ok /\ in.chain.ok

\* C4: when the leaf parses, the chain validates and the expected hostname
\* is absent or matches, the call returns 'verified' and last_result() then
\* reports OK, in either mode, whatever names the certificate carries and
\* whatever name the transport supplied.
C4_ValidChain ==
    \A c \in Calls :
        ( /\ call[c].pc = "returned"
          /\ ChainValid(call[c].in)
          /\ \/ verify_hostname = None
             \/ verify_hostname \in call[c].in.end_entity.names )
        => /\ call[c].ret.ok
           /\ Stored(c) = X509_V_OK
           /\ \A r \in Readers :
                 ( /\ reader[r].pc = "read"
                   /\ reader[r].after = c
                   /\ reader[r].fresh )
                 => reader[r].got = X509_V_OK

\* C4 witness: no expected hostname, a certificate with names none of which
\* is the transport's name, verified, and OK read afterwards.
C4_Witness ==
    \E c \in Calls, r \in Readers :
        /\ verify_hostname = None
        /\ call[c].pc = "returned"
        /\ ChainValid(call[c].in)
        /\ call[c].in.end_entity.names # {}
        /\ call[c].in.server_name \notin call[c].in.end_entity.names
        /\ call[c].ret.ok
        /\ reader[r].pc = "read"
        /\ reader[r].after = c
        /\ reader[r].got = X509_V_OK

\* The expected hostname is set and matches no name in the certificate.
NameMismatch(in) ==
    verify_hostname # None /\ verify_hostname \notin in.end_entity.names

\* C5 as stated: whenever the expected hostname is set and matches no name
\* in the certificate, last_result() reports "hostname mismatch" and the
\* decision is failure under the mandatory mode.
C5_Original ==
    \A c \in Calls :
        (call[c].pc = "returned" /\ NameMismatch(call[c].in))
        => /\ Stored(c) = X509_V_ERR_HOSTNAME_MISMATCH
           /\ mode = "mandatory" => ~call[c].ret.ok

\* C5 amended: when the leaf parses and the chain validates, and the
\* expected hostname is set and matches no name in the certificate,
\* last_result() reports "hostname mismatch" and the decision is failure
\* under the mandatory mode.
C5_Amended ==
    \A c \in Calls :
        ( /\ call[c].pc = "returned"
          /\ ChainValid(call[c].in)
          /\ NameMismatch(call[c].in) )
        => /\ Stored(c) = X509_V_ERR_HOSTNAME_MISMATCH
           /\ mode = "mandatory" =>
                 call[c].ret = Err(InvalidCertificate("NotValidForName"))
           /\ \A r \in Readers :
                 ( /\ reader[r].pc = "read"
                   /\ reader[r].after = c
                   /\ reader[r].fresh )
                 => reader[r].got = X509_V_ERR_HOSTNAME_MISMATCH

\* C5 witness: a valid chain for another name was rejected under the
\* mandatory mode and "hostname mismatch" was read afterwards.
C5_Witness ==
    \E c \in Calls, r \in Readers :
        /\ mode = "mandatory"
        /\ call[c].pc = "returned"
        /\ ChainValid(call[c].in)
        /\ NameMismatch(call[c].in)
        /\ call[c].in.end_entity.names # {}
        /\ ~call[c].ret.ok
        /\ reader[r].pc = "read"
        /\ reader[r].after = c
        /\ reader[r].got = X509_V_ERR_HOSTNAME_MISMATCH

\* The code expected for a call's arguments and the expected hostname; the
\* verify mode is no argument of it.
ExpectedCode(in, hostname) ==
    IF ~in.end_entity.der_ok THEN X509_V_ERR_UNSPECIFIED
    ELSE IF ~in.chain.ok THEN TableCode(in.chain)
    ELSE IF hostname # None /\ hostname \notin in.end_entity.names
         THEN X509_V_ERR_HOSTNAME_MISMATCH
    ELSE X509_V_OK

ExpiredLeaf(in) ==
    in.end_entity.der_ok /\ in.chain = Err(InvalidCertificate("Expired"))

\* C6: the code stored is a function of the certificate, chain, time and
\* expected hostname alone, the same under both modes.  For an expired leaf
\* it is "certificate has expired", and the decision is failure under the
\* mandatory mode and success under the advisory mode.
C6_ModeIndependent ==
    \A c \in Calls :
        call[c].pc # "idle" =>
            /\ Stored(c) = ExpectedCode(call[c].in, verify_hostname)
            /\ ExpiredLeaf(call[c].in) =>
                  /\ Stored(c) = X509_V_ERR_CERT_HAS_EXPIRED
                  /\ call[c].pc = "returned" =>
                        (call[c].ret.ok <=> mode = "advisory")

\* C6 witness: under the advisory mode an expired leaf was accepted and
\* "certificate has expired" was read afterwards.
C6_Witness ==
    \E c \in Calls, r \in Readers :
        /\ mode = "advisory"
        /\ call[c].pc = "returned"
        /\ ExpiredLeaf(call[c].in)
        /\ call[c].ret.ok
        /\ reader[r].pc = "read"
        /\ reader[r].after = c
        /\ reader[r].got = X509_V_ERR_CERT_HAS_EXPIRED

\* C7: the register always holds a legacy code, and until the first store a
\* last_result() returns the "unspecified" sentinel.
C7_RegisterValid ==
    /\ \A i \in DOMAIN last_result : last_result[i] \in LegacyCodes
    /\ last_result[1] = X509_V_ERR_UNSPECIFIED
    /\ \A r \in Readers :
          (reader[r].pc = "read" /\ reader[r].after = 0 /\ reader[r].fresh)
          => reader[r].got = X509_V_ERR_UNSPECIFIED

\* C7 witness: a last_result() made before any store returned the sentinel,
\* and a call has stored another code since.
C7_Witness ==
    \E r \in Readers :
        /\ reader[r].pc = "read"
        /\ reader[r].after = 0
        /\ reader[r].fresh
        /\ reader[r].got = X509_V_ERR_UNSPECIFIED
        /\ Len(last_result) > 1
        /\ last_result[Len(last_result)] # X509_V_ERR_UNSPECIFIED

\* The calls that have passed their store.
Started == {c \in Calls : call[c].pc # "idle"}

C8_StoredOnce ==
    /\ Len(last_result) = 1 + Cardinality(Started)
    /\ \A c \in Started :
          /\ call[c].at \in 2..Len(last_result)
          /\ Stored(c) = call[c].openssl_rv
          /\ Stored(c) \in LegacyCodes
          /\ \A d \in Started : d # c => call[d].at # call[c].at

\* C8: every call, whatever its outcome and the mode, stores exactly one
\* code, stores it before it returns, and returns once: a returned call
\* neither stores nor returns again.
C8_OneStorePerCall ==
    /\ []C8_StoredOnce
    /\ [][\A c \in Calls :
            /\ call[c].pc = "returned" => call'[c] = call[c]
            /\ (call[c].pc # "returned" /\ call'[c].pc = "returned") =>
                  /\ call[c].pc = "stored"
                  /\ last_result' = last_result]_vars

\* C8 witness: under the advisory mode two calls returned, one after a
\* success and one after a parse error, and the register holds two stores.
C8_Witness ==
    \E c, d \in Calls :
        /\ mode = "advisory"
        /\ call[c].pc = "returned"
        /\ call[d].pc = "returned"
        /\ call[c].result.ok
        /\ call[d].result = Err(InvalidCertificate("BadEncoding"))
        /\ Len(last_result) = 3

\* C9: only verify_server_cert changes the register, by one store of its
\* code; the signature checks, supported_verify_schemes and last_result
\* leave it as it is, and nothing changes the trust store, the provider,
\* the expected hostname or the verify mode.
C9_Frame ==
    [][ /\ UNCHANGED <<root_store, provider, verify_hostname, mode>>
        /\ last_result' # last_result =>
              \E c \in Calls :
                 /\ call[c].pc = "idle"
                 /\ call'[c].pc = "stored"
                 /\ last_result' = Append(last_result, call'[c].openssl_rv)
        /\ (sig' # sig \/ reader' # reader) => last_result' = last_result
      ]_vars

\* C9 witness: after a call had stored a code other than the sentinel, a
\* TLS 1.2 signature check failed and the register still holds that code.
C9_Witness ==
    \E c \in Calls :
        /\ call[c].pc = "returned"
        /\ call[c].openssl_rv # X509_V_ERR_UNSPECIFIED
        /\ sig.op = "tls12"
        /\ sig.ret = <<"Err">>
        /\ last_result = <<X509_V_ERR_UNSPECIFIED, call[c].openssl_rv>>

\* C10: the leaf is parsed, then the chain validated, then the expected
\* hostname checked, and the first failure is the one recorded: "hostname
\* mismatch" only for a parsed leaf with a valid chain and an expected
\* hostname; the chain's code when the chain fails, whatever the names;
\* "unspecified" when the leaf does not parse, whatever else is wrong.
C10_CheckOrder ==
    \A c \in Calls :
        call[c].pc # "idle" =>
            /\ Stored(c) = X509_V_ERR_HOSTNAME_MISMATCH =>
                  ChainValid(call[c].in) /\ NameMismatch(call[c].in)
            /\ call[c].result = Err(InvalidCertificate("NotValidForName")) =>
                  ChainValid(call[c].in) /\ verify_hostname # None
            /\ (call[c].in.end_entity.der_ok /\ ~call[c].in.chain.ok) =>
                  /\ call[c].result = call[c].in.chain
                  /\ Stored(c) = TableCode(call[c].in.chain)
            /\ ~call[c].in.end_entity.der_ok =>
                  /\ call[c].result = Err(InvalidCertificate("BadEncoding"))
                  /\ Stored(c) = X509_V_ERR_UNSPECIFIED

\* C10 witness: an expired leaf that also matches no expected name was
\* rejected, and "certificate has expired" is the code recorded.
C10_Witness ==
    \E c \in Calls :
        /\ call[c].pc = "returned"
        /\ ExpiredLeaf(call[c].in)
        /\ NameMismatch(call[c].in)
        /\ call[c].ret = Err(InvalidCertificate("Expired"))
        /\ Stored(c) = X509_V_ERR_CERT_HAS_EXPIRED

====
